---- MODULE Spec2Model ----
(***************************************************************************)
(* A model of effect-saga: the stream combinators of src/src/core.ts       *)
(* (takeEvery, takeLatest) and the saga runner of                          *)
(* src/src/utils/effectSagaEnhancerFactory.ts (start, stop, switchSaga,     *)
(* attachFiberObserver, the store rendezvous), the store action bridge     *)
(* subscribeStoreActionEnhancerFactory, streamDistinctUntilChanged, and    *)
(* storeActionStream / makeStateStream of core.ts.                         *)
(*                                                                         *)
(* JavaScript runs every synchronous block to completion, so one action of *)
(* the model is one synchronous block: the part of an async function up to *)
(* its next `await`, or one resumption of a fiber.                         *)
(***************************************************************************)
EXTENDS Integers, Sequences, FiniteSets, TLC

\* Bounds of the model.
MaxElems == 3      \* elements the input stream of a combinator emits
MaxCalls == 3      \* start / stop / switchSaga calls issued on one runner
MaxSteps == 1      \* steps a saga body has after its first suspension point
MaxSagas == 3      \* sagas passed to one combineSagas call
MaxTypes == 2      \* action types dispatched to a store with an action stream
MaxStores == 2     \* stores created through one runner's enhancer
MaxListeners == 2  \* distinct listener functions passed to subscribeAction
MaxSubscribes == 3 \* subscribeAction calls made on one store
MaxValue == 3      \* distinct values a stream under streamDistinctUntilChanged carries
MaxLen == 4        \* values such a stream emits
MaxDispatches == 2 \* dispatch calls made on one store, re-entrant ones included

Elems == 1..MaxElems
CallIds == 1..MaxCalls
FiberIds == CallIds    \* the fiber forked by call c is fiber c
Stores == 1..MaxStores
ListenerFns == 1..MaxListeners
Values == 1..MaxValue
States == 0..MaxDispatches  \* the store counts the amounts dispatched
NULL == 0

VARIABLES
    \* ---- combinators (core.ts) ----
    combinator,     \* "takeEvery" or "takeLatest": the combinator under run
    upstream,       \* elements pushed by the stream and not yet pulled by flatMap
    emitted,        \* number of elements the stream has emitted
    streamEnded,    \* the stream has ended
    hstate,         \* per element: state of the handler invocation
    cancelers,      \* flatMap's queue of cancelers (switch mode), oldest first
    cancelled,      \* elements whose canceler has been signalled
    blockedOn,      \* element whose handler fiber the puller waits on (0: none)
    started,        \* log of handler start side effects, in order
    completed,      \* log of handler completion side effects, in order
    combDone,       \* the combinator effect has completed
    failure,        \* element whose handler failed (0: none): the combinator's error
    superseded,     \* history: elements whose successor arrived before they completed
    \* ---- runner (effectSagaEnhancerFactory.ts) ----
    storeDefer,     \* "pending" or "resolved": storeDefer of the runner
    running,        \* [runtime, fiber]: the runner's `running` record (fiber 0: null)
    fibers,         \* per fiber id: [status, saga, runtime, steps, exit]
    calls,          \* per call id: the state of one start/stop/switchSaga call
    errors,         \* per fiber id: number of onError invocations for its exit
    boundStore,     \* the store storeDefer.promise resolves with (0: none yet)
    created,        \* history: stores created through the enhancer, in order
    createErrors,   \* stores whose creation threw out of the enhancer
    \* ---- store action bridge (subscribeStoreActionEnhancerFactory.ts) ----
    storeState,     \* state of the underlying store
    listeners,      \* the `listeners` array: [fn, ticket] entries
    stack,          \* dispatch calls in progress, innermost last
    dispatched,     \* history: one record per dispatch call, in call order
    deliveries,     \* history: listener invocations, in order
    tickets,        \* history: the function of each subscribeAction call, in order
    registered,     \* history: tickets subscribed and not unsubscribed since
    \* ---- streamDistinctUntilChanged.ts ----
    eq,             \* the isEqual argument: the pairs <<a, b>> with isEqual(a, b)
    input,          \* history: values the upstream has emitted, in order
    scanState,      \* the accumulator of Stream.scan: [isEqual, lastValue]
    output,         \* values emitted downstream, in order
    \* ---- storeActionStream and makeStateStream (core.ts) ----
    selector,       \* the selector passed to makeStateStream
    streamPc,       \* "idle", "read" (initial state read, listener not yet
                    \* registered) or "running"
    subscribedAt,   \* history: dispatch calls made when the initial state was read
    events,         \* history: events emitted by storeActionStream, in order
    \* ---- combineSagas (effectSagaEnhancerFactory.ts) ----
    sagas,          \* the sagas passed to combineSagas: the kind of each
    childPc,        \* per saga: "unstarted", "suspended" or "done"
    childExit,      \* per saga: the exit of its fiber
    taskQueue,      \* the scheduler's tasks, oldest first: [kind, child]
    interrupted,    \* a failure was seen and the siblings were told to stop
    pendingInterrupt, \* fibers interrupted before they were resumed
    sideEffects,    \* history: sagas whose first side effect has occurred
    childSteps,     \* per saga: steps taken after its first suspension
    combExit,       \* the exit of the combined saga
    \* ---- take (core.ts) ----
    takePc,         \* "idle", "running" (suspended on the stream) or "done"
    offered,        \* history: elements the stream produced since take ran
    offeredEnded,   \* the stream of take has ended
    chunk,          \* the chunk Stream.runCollect has collected
    takeExit,       \* the exit of the take effect
    takeValue,      \* the value take returned (0: none)
    takeReported,   \* onError calls for take's exit, take being the root saga
    \* ---- the consumer of makeActionStream (core.ts) ----
    streamOwner,    \* the fiber whose saga consumes the stream (0: none)
    consumerEnd     \* history: how the last consumption ended ("none": not yet)

combVars == <<combinator, upstream, emitted, streamEnded, hstate, cancelers,
              cancelled, blockedOn, started, completed, combDone, failure,
              superseded>>
runnerVars == <<storeDefer, running, fibers, calls, errors>>
rendezvousVars == <<boundStore, created, createErrors>>
bridgeVars == <<storeState, listeners, stack, dispatched, deliveries, tickets,
                registered>>
distinctVars == <<eq, input, scanState, output>>
streamVars == <<selector, streamPc, subscribedAt, events>>
combineVars == <<sagas, childPc, childExit, taskQueue, interrupted,
                 pendingInterrupt, sideEffects, childSteps, combExit>>
takeVars == <<takePc, offered, offeredEnded, chunk, takeExit, takeValue,
              takeReported>>
consumerVars == <<streamOwner, consumerEnd>>
notCombVars == <<runnerVars, rendezvousVars, bridgeVars, distinctVars, streamVars,
                 combineVars, takeVars, consumerVars>>
notRunnerVars == <<combVars, bridgeVars, distinctVars, streamVars, combineVars,
                   takeVars, consumerVars>>
notStoreVars == <<combVars, runnerVars, rendezvousVars, combineVars, takeVars, consumerVars>>
notBridgeVars == <<notStoreVars, distinctVars, streamVars>>
notDistinctVars == <<combVars, runnerVars, rendezvousVars, bridgeVars, streamVars,
                     combineVars, takeVars, consumerVars>>
notCombineVars == <<combVars, runnerVars, rendezvousVars, bridgeVars, distinctVars,
                    streamVars, takeVars, consumerVars>>
notTakeVars == <<combVars, runnerVars, rendezvousVars, bridgeVars, distinctVars,
                 streamVars, combineVars, consumerVars>>
vars == <<combVars, runnerVars, rendezvousVars, bridgeVars, distinctVars,
          streamVars, combineVars, takeVars, consumerVars>>

(***************************************************************************)
(* Combinators: takeEvery and takeLatest are Stream.flatMap with options,   *)
(* drained by Sink.drain.                                                  *)
(***************************************************************************)

\* Number.MAX_SAFE_INTEGER permits: more than the handlers a run can have.
Unbounded == MaxElems + 1

\* core.ts:132-134, the options takeEvery passes to Stream.flatMap.
takeEveryOptions == [concurrency |-> 1, switch |-> FALSE]

\* The options of a takeLatest that runs handlers with no cap.
takeLatestOptions_uncapped == [concurrency |-> Unbounded, switch |-> TRUE]

\* The options of a takeLatest that lost `switch: true`.
takeLatestOptions_noSwitch == [concurrency |-> 1, switch |-> FALSE]

\* core.ts:149-152, the options takeLatest passes to Stream.flatMap.
takeLatestOptions == [concurrency |-> 1, switch |-> TRUE]

\* Stream.flatMap's choice of implementation from its options: concurrency 1
\* without switch is a sequential concatMap (the next element is pulled only
\* when the inner stream of the previous one has ended); with switch it is a
\* merge of n permits whose strategy interrupts the oldest handler ("sliding");
\* concurrency > 1 without switch is a merge of n permits that waits for a
\* free permit ("backpressure").
flatMap(options) ==
    IF options.switch
      THEN [strategy |-> "sliding",
            n |-> IF options.concurrency > 1 THEN options.concurrency ELSE 1]
      ELSE IF options.concurrency > 1
             THEN [strategy |-> "backpressure", n |-> options.concurrency]
             ELSE [strategy |-> "concat", n |-> 1]

takeEvery == flatMap(takeEveryOptions)
takeLatest == flatMap(takeLatestOptions)

Plan == IF combinator = "takeEvery" THEN takeEvery ELSE takeLatest

\* The state flatMap works on, as one value.
FlatMapState ==
    [hstate |-> hstate, cancelers |-> cancelers, cancelled |-> cancelled,
     blockedOn |-> blockedOn, started |-> started, upstream |-> upstream]

\* Handlers that hold a permit: started and neither completed nor interrupted.
InFlightOf(s) == {e \in Elems : s.hstate[e] = "running"}
InFlight == InFlightOf(FlatMapState)

PermitFree(s) == Cardinality(InFlightOf(s)) < Plan.n

PullerReady_afterFailure(s) ==
    /\ s.blockedOn = NULL
    /\ (Plan.strategy = "concat" => InFlightOf(s) = {})

\* The puller of flatMap is waiting for the next element of the stream: it
\* waits on no handler fiber and, in a concatMap, the previous inner stream
\* has ended. A failed stream is pulled no more.
PullerReady(s) ==
    /\ failure = NULL
    /\ s.blockedOn = NULL
    /\ (Plan.strategy = "concat" => InFlightOf(s) = {})

\* The handler of e is invoked: its start side effect happens and it runs
\* up to its first suspension point.
invoke(s, e) ==
    [s EXCEPT !.hstate[e] = "running", !.started = Append(@, e),
              !.blockedOn = NULL]

\* flatMap receives element e. concatMap invokes the handler. A merge forks
\* the handler's fiber, which waits for a permit, and the puller waits for
\* it; in switch mode the oldest canceler is signalled first when n
\* cancelers are queued.
deliver(s, e) ==
    IF Plan.strategy = "concat"
      THEN invoke(s, e)
      ELSE LET sliding == Plan.strategy = "sliding"
               mustCancel == sliding /\ Len(s.cancelers) >= Plan.n
               rest == IF mustCancel THEN Tail(s.cancelers) ELSE s.cancelers
           IN  [s EXCEPT !.cancelled = IF mustCancel
                                         THEN @ \cup {Head(s.cancelers)} ELSE @,
                         !.cancelers = IF sliding THEN Append(rest, e) ELSE @,
                         !.hstate[e] = "waiting",
                         !.blockedOn = e]

\* flatMap's fibers run until each of them is suspended: a handler fiber
\* that waits for a permit takes a free one, and a puller that is ready
\* takes the oldest buffered element. These continuations are microtasks:
\* they run before any timer or dispatch, so they are part of the step that
\* enables them.
RECURSIVE settle(_)
settle(s) ==
    IF s.blockedOn # NULL /\ PermitFree(s)
      THEN settle(invoke(s, s.blockedOn))
      ELSE IF PullerReady(s) /\ s.upstream # <<>>
             THEN settle(deliver([s EXCEPT !.upstream = Tail(@)], Head(s.upstream)))
             ELSE s

\* The next state of flatMap is s.
Becomes(s) ==
    /\ hstate' = s.hstate
    /\ cancelers' = s.cancelers
    /\ cancelled' = s.cancelled
    /\ blockedOn' = s.blockedOn
    /\ started' = s.started
    /\ upstream' = s.upstream

buffer_sliding(queue, e) == <<e>>

\* The stream's buffer is unbounded (the default of Stream.asyncPush, and
\* flatMap pulls a stream only when it is ready for an element): an element
\* that arrives is kept behind the elements not pulled yet.
buffer(queue, e) == Append(queue, e)

\* The stream emits its next element into its buffer.
Emit ==
    /\ ~streamEnded /\ ~combDone
    /\ emitted < MaxElems
    /\ emitted' = emitted + 1
    /\ superseded' = IF emitted >= 1 /\ hstate[emitted] # "completed"
                       THEN superseded \cup {emitted} ELSE superseded
    /\ Becomes(settle([FlatMapState EXCEPT !.upstream = buffer(@, emitted + 1)]))
    /\ UNCHANGED <<combinator, streamEnded, completed, combDone, failure>>
    /\ UNCHANGED notCombVars

\* A handler that was not cancelled resumes from its suspension point and
\* reaches its completion step. (A handler is taken to suspend once between
\* its start and its completion; the interruption of a cancelled handler
\* reaches it at that suspension point.)
HandlerComplete(e) ==
    /\ hstate[e] = "running"
    /\ e \notin cancelled
    /\ completed' = Append(completed, e)
    /\ Becomes(settle([FlatMapState EXCEPT !.hstate[e] = "completed"]))
    /\ UNCHANGED <<combinator, emitted, streamEnded, combDone, failure, superseded>>
    /\ UNCHANGED notCombVars

\* The cancellation of a handler whose canceler was signalled completes.
HandlerInterrupted(e) ==
    /\ hstate[e] = "running"
    /\ e \in cancelled
    /\ Becomes(settle([FlatMapState EXCEPT !.hstate[e] = "interrupted"]))
    /\ UNCHANGED <<combinator, emitted, streamEnded, completed, combDone, failure,
                   superseded>>
    /\ UNCHANGED notCombVars

\* A handler that was not cancelled fails: the failure is the stream's, the
\* scope of flatMap closes, which interrupts the handlers in flight, and the
\* handler fiber that waits for a permit never runs its handler.
HandlerFail(e) ==
    /\ hstate[e] = "running"
    /\ e \notin cancelled
    /\ failure = NULL
    /\ failure' = e
    /\ hstate' = [x \in Elems |->
                    IF x = e THEN "failed"
                    ELSE IF hstate[x] = "waiting" THEN "interrupted"
                    ELSE hstate[x]]
    /\ cancelled' = cancelled \cup (InFlight \ {e})
    /\ blockedOn' = NULL
    /\ UNCHANGED <<combinator, upstream, emitted, streamEnded, cancelers, started,
                   completed, combDone, superseded>>
    /\ UNCHANGED notCombVars

endOfStream_cancelsInFlight(c) == c \cup InFlight

\* The handlers that are cancelled once the stream has ended: the end of
\* the stream signals no canceler, flatMap waits for the permits instead.
endOfStream(c) == c

\* The stream ends.
EndStream ==
    /\ ~streamEnded /\ ~combDone
    /\ streamEnded' = TRUE
    /\ cancelled' = endOfStream(cancelled)
    /\ UNCHANGED <<combinator, upstream, emitted, hstate, cancelers,
                   blockedOn, started, completed, combDone, failure, superseded>>
    /\ UNCHANGED notCombVars

drained_atStreamEnd == failure # NULL \/ streamEnded

\* The run of the flat-mapped stream can end: every handler has ended, and
\* the stream has ended with its buffer empty or a handler has failed.
drained ==
    /\ InFlight = {} /\ blockedOn = NULL
    /\ failure # NULL \/ (streamEnded /\ upstream = <<>>)

\* Stream.run(Sink.drain) returns: every handler has ended, and the stream
\* has ended or a handler has failed (the combinator then fails with it).
RunEnds ==
    /\ ~combDone
    /\ drained
    /\ combDone' = TRUE
    /\ UNCHANGED <<combinator, upstream, emitted, streamEnded, hstate, cancelers,
                   cancelled, blockedOn, started, completed, failure, superseded>>
    /\ UNCHANGED notCombVars

CombInit ==
    /\ combinator \in {"takeEvery", "takeLatest"}
    /\ upstream = <<>>
    /\ emitted = 0
    /\ streamEnded = FALSE
    /\ hstate = [e \in Elems |-> "none"]
    /\ cancelers = <<>>
    /\ cancelled = {}
    /\ blockedOn = NULL
    /\ started = <<>>
    /\ completed = <<>>
    /\ combDone = FALSE
    /\ failure = NULL
    /\ superseded = {}

CombNext ==
    \/ Emit
    \/ \E e \in Elems : HandlerComplete(e)
    \/ \E e \in Elems : HandlerInterrupted(e)
    \/ \E e \in Elems : HandlerFail(e)
    \/ EndStream
    \/ RunEnds

(***************************************************************************)
(* The saga runner: _createEffectSagaRunner.                               *)
(***************************************************************************)

\* `running = null`.
NoRunning == [runtime |-> NULL, fiber |-> NULL]

\* Exit values of a fiber. The cause of a failure is the set of its leaves.
NoExit == [tag |-> "None", cause |-> {}]
Success == [tag |-> "Success", cause |-> {}]
Failure(cause) == [tag |-> "Failure", cause |-> cause]

Exit_isFailure(exit) == exit.tag = "Failure"

\* Cause.isInterruptedOnly: every leaf of the cause is an interruption.
Cause_isInterruptedOnly(cause) == \A leaf \in cause : leaf = "Interrupt"

\* A fiber that was never forked, and a call that was never issued.
NoFiber == [status |-> "none", saga |-> "none", runtime |-> NULL, steps |-> 0,
            exit |-> NoExit]
\* Of a call, beside its position (op, pc) and its locals (target, runtime):
\* the steps its target had executed at the call, whether another call was
\* suspended when it was issued, and the record before its last step and
\* at its return.
NoCall == [op |-> "none", pc |-> "idle", target |-> NULL, runtime |-> NULL,
           targetSteps |-> 0, overlaps |-> FALSE, recordBefore |-> NoRunning,
           recordAtReturn |-> NoRunning, store |-> NULL, storesCreated |-> 0]

\* No start, stop or switchSaga call is suspended at an await.
Quiescent == \A c \in CallIds : calls[c].pc \in {"idle", "done"}

\* A call as it is issued.
NewCall(op) == [NoCall EXCEPT !.op = op, !.overlaps = ~Quiescent]

\* Fibers that have been forked and have not exited.
Alive == {f \in FiberIds : fibers[f].status \in {"running", "interrupting"}}

\* The call issued next: calls are numbered in the order they are issued.
NextCall(c) ==
    /\ calls[c].op = "none"
    /\ \A d \in 1..(c - 1) : calls[d].op # "none"

\* Runtime.runFork(runtime, saga): a new fiber runs saga up to its first
\* suspension point.
runFork(fs, f, runtime, saga) ==
    [fs EXCEPT ![f] = [status |-> "running", saga |-> saga,
                       runtime |-> runtime, steps |-> 0, exit |-> NoExit]]

\* effectSagaEnhancerFactory.ts:82-85: the fiber becomes the record.
attachFiberObserver(runtime, fiber) == [runtime |-> runtime, fiber |-> fiber]

\* A Fiber.interrupt that sends no interruption and only awaits the exit.
interrupt_awaitOnly(fs, f) == fs

\* Fiber.interrupt(fiber), the request: a fiber that has not exited is
\* interrupted at its suspension point and starts its cancellation.
interrupt(fs, f) ==
    [fs EXCEPT ![f].status = IF @ = "running" THEN "interrupting" ELSE @]

\* A call that goes on without awaiting the interruption.
interruptAwaited_not(f) == TRUE

\* `await Runtime.runPromise(runtime, Fiber.interrupt(fiber))` resumes: the
\* fiber has exited.
interruptAwaited(f) == fibers[f].status = "done"

\* An observer that clears the record whatever it holds.
observerClears_always(run, f) == TRUE

\* effectSagaEnhancerFactory.ts:88: `running?.fiber === fiber`.
observerClears(run, f) == run # NoRunning /\ run.fiber = f

\* An observer that reports every failure, interruptions included.
observerReports_anyFailure(exit) == Exit_isFailure(exit)

\* effectSagaEnhancerFactory.ts:92: the exit is reported to onError.
observerReports(exit) ==
    Exit_isFailure(exit) /\ ~Cause_isInterruptedOnly(exit.cause)

\* An observer that reports a failure only for the fiber of the record.
onErrorCalls_onlyForRecord(run, f, exit) ==
    IF observerClears(run, f) /\ observerReports(exit) THEN 1 ELSE 0

\* effectSagaEnhancerFactory.ts:87-95: the number of onError calls the
\* observer of fiber f makes for its exit, with `running` being run.
onErrorCalls(run, f, exit) == IF observerReports(exit) THEN 1 ELSE 0

\* helpers/defer: a promise with its resolve function and an isPending flag.
\* The promise settles once: resolve on a settled defer changes nothing.
defer_isPending(d) == d = "pending"
defer_resolve(d, value, v) ==
    IF defer_isPending(d) THEN <<"resolved", v>> ELSE <<d, value>>

\* A setStore callback that accepts every store.
setStoreThrows_never == FALSE

\* effectSagaEnhancerFactory.ts:100-102: setStore throws 'store already set'
\* when storeDefer is no longer pending.
setStoreThrows == ~defer_isPending(storeDefer)

\* The runner's enhancer is applied to create store s: the wrapped store
\* creator builds the store, then setStore(store) runs before the store is
\* returned; its throw leaves the creation by exception.
CreateStore(s) ==
    /\ \A i \in 1..Len(created) : created[i] # s
    /\ created' = Append(created, s)
    /\ IF setStoreThrows
         THEN /\ createErrors' = createErrors \cup {s}
              /\ UNCHANGED <<storeDefer, boundStore>>
         ELSE /\ storeDefer' = defer_resolve(storeDefer, boundStore, s)[1]
              /\ boundStore' = defer_resolve(storeDefer, boundStore, s)[2]
              /\ UNCHANGED createErrors
    /\ UNCHANGED <<running, fibers, calls, errors>>
    /\ UNCHANGED notRunnerVars

\* The enhancer creates the one store of the application.
BindStore ==
    /\ storeDefer = "pending"
    /\ CreateStore(1)

\* start() is called and suspends at `await storeDefer.promise`.
StartCall(c) ==
    /\ NextCall(c)
    /\ calls' = [calls EXCEPT ![c] = [NewCall("start") EXCEPT !.pc = "awaitStore"]]
    /\ UNCHANGED <<storeDefer, running, fibers, errors>>
    /\ UNCHANGED <<rendezvousVars, notRunnerVars>>

\* A start that goes on without the store.
awaitStore_not == TRUE

\* effectSagaEnhancerFactory.ts:107: `await storeDefer.promise` resumes
\* once the defer has been resolved.
awaitStore == ~defer_isPending(storeDefer)

\* start() resumes with the store: it builds a runtime, forks the root saga
\* and attaches the observer.
StartResume(c) ==
    /\ calls[c].pc = "awaitStore"
    /\ awaitStore
    /\ fibers' = runFork(fibers, c, c, "root")
    /\ running' = attachFiberObserver(c, c)
    /\ calls' = [calls EXCEPT ![c].pc = "done", ![c].runtime = c,
                              ![c].recordBefore = running,
                              ![c].recordAtReturn = running',
                              ![c].store = boundStore,
                              ![c].storesCreated = Len(created)]
    /\ UNCHANGED <<storeDefer, errors>>
    /\ UNCHANGED <<rendezvousVars, notRunnerVars>>

\* stop() is called: with a record it interrupts the fiber and suspends
\* until the interruption has completed; with none it returns.
StopCall(c) ==
    /\ NextCall(c)
    /\ IF running # NoRunning
         THEN /\ fibers' = interrupt(fibers, running.fiber)
              /\ calls' = [calls EXCEPT ![c] =
                     [NewCall("stop") EXCEPT !.pc = "awaitInterrupt",
                                    !.target = running.fiber,
                                    !.runtime = running.runtime,
                                    !.targetSteps = fibers[running.fiber].steps,
                                    !.recordBefore = running]]
         ELSE /\ fibers' = fibers
              /\ calls' = [calls EXCEPT ![c] =
                     [NewCall("stop") EXCEPT !.pc = "done",
                                    !.recordBefore = running,
                                    !.recordAtReturn = running]]
    /\ UNCHANGED <<storeDefer, running, errors>>
    /\ UNCHANGED <<rendezvousVars, notRunnerVars>>

\* stop() resumes after the interruption: `running = null`.
StopResume(c) ==
    /\ calls[c].op = "stop" /\ calls[c].pc = "awaitInterrupt"
    /\ interruptAwaited(calls[c].target)
    /\ running' = NoRunning
    /\ calls' = [calls EXCEPT ![c].pc = "done", ![c].recordAtReturn = running']
    /\ UNCHANGED <<storeDefer, fibers, errors>>
    /\ UNCHANGED <<rendezvousVars, notRunnerVars>>

\* A switchSaga that, with no record, starts the new saga as a first saga.
SwitchSagaCall_startsWhenIdle(c) ==
    /\ NextCall(c)
    /\ running = NoRunning
    /\ storeDefer = "resolved"
    /\ fibers' = runFork(fibers, c, c, "switched")
    /\ running' = attachFiberObserver(c, c)
    /\ calls' = [calls EXCEPT ![c] =
           [NewCall("switchSaga") EXCEPT !.pc = "done",
                          !.recordBefore = running,
                          !.recordAtReturn = running']]
    /\ UNCHANGED <<storeDefer, errors>>
    /\ UNCHANGED <<rendezvousVars, notRunnerVars>>

\* switchSaga(saga) is called: with a record it keeps the record's runtime,
\* interrupts the fiber and suspends until the interruption has completed;
\* with none it returns.
SwitchSagaCall(c) ==
    /\ NextCall(c)
    /\ IF running # NoRunning
         THEN /\ fibers' = interrupt(fibers, running.fiber)
              /\ calls' = [calls EXCEPT ![c] =
                     [NewCall("switchSaga") EXCEPT !.pc = "awaitInterrupt",
                                    !.target = running.fiber,
                                    !.runtime = running.runtime,
                                    !.targetSteps = fibers[running.fiber].steps,
                                    !.recordBefore = running]]
         ELSE /\ fibers' = fibers
              /\ calls' = [calls EXCEPT ![c] =
                     [NewCall("switchSaga") EXCEPT !.pc = "done",
                                    !.recordBefore = running,
                                    !.recordAtReturn = running]]
    /\ UNCHANGED <<storeDefer, running, errors>>
    /\ UNCHANGED <<rendezvousVars, notRunnerVars>>

\* switchSaga resumes after the interruption: it forks the new saga in the
\* runtime it kept and attaches the observer.
SwitchSagaResume(c) ==
    /\ calls[c].op = "switchSaga" /\ calls[c].pc = "awaitInterrupt"
    /\ interruptAwaited(calls[c].target)
    /\ fibers' = runFork(fibers, c, calls[c].runtime, "switched")
    /\ running' = attachFiberObserver(calls[c].runtime, c)
    /\ calls' = [calls EXCEPT ![c].pc = "done", ![c].recordBefore = running,
                              ![c].recordAtReturn = running']
    /\ UNCHANGED <<storeDefer, errors>>
    /\ UNCHANGED <<rendezvousVars, notRunnerVars>>

\* A saga that was not interrupted executes the step after its suspension
\* point.
SagaStep(f) ==
    /\ fibers[f].status = "running"
    /\ fibers[f].steps < MaxSteps
    /\ fibers' = [fibers EXCEPT ![f].steps = @ + 1]
    /\ UNCHANGED <<storeDefer, running, calls, errors>>
    /\ UNCHANGED <<rendezvousVars, notRunnerVars>>

\* The exits a fiber can take: a saga that runs ends in success or in a
\* failure of its own; an interrupted one ends interrupted, or interrupted
\* with a defect of a finalizer.
ExitsOf(status) ==
    IF status = "running" THEN {Success, Failure({"Fail"})}
    ELSE IF status = "interrupting"
           THEN {Failure({"Interrupt"}), Failure({"Interrupt", "Die"})}
    ELSE {}

RunnerInit ==
    /\ storeDefer = "pending"
    /\ running = NoRunning
    /\ fibers = [f \in FiberIds |-> NoFiber]
    /\ calls = [c \in CallIds |-> NoCall]
    /\ errors = [f \in FiberIds |-> 0]
    /\ boundStore = NULL
    /\ created = <<>>
    /\ createErrors = {}

(***************************************************************************)
(* streamDistinctUntilChanged.                                             *)
(***************************************************************************)

\* part_001:63: Symbol('initial'), different from every value.
initial == -1

\* The caller's isEqual, and (a, b) => a === b.
isEqual(a, b) == <<a, b>> \in eq
StrictEquality == {<<v, v>> : v \in Values \cup States}

\* part_001:65-68.
_isEqual(a, b) == IF a = initial THEN FALSE ELSE isEqual(a, b)

\* part_001:77: the first accumulator of the scan.
scanInitial == [isEqual |-> FALSE, lastValue |-> initial]

\* part_001:78-81: the scan compares with, and keeps, the previous input.
scanStep(a, b) == [isEqual |-> _isEqual(a.lastValue, b), lastValue |-> b]

\* part_001:83-84: Stream.filter, then Stream.map: what one accumulator
\* sends downstream.
emits(res) ==
    IF ~res.isEqual /\ res.lastValue # initial THEN <<res.lastValue>> ELSE <<>>

\* The whole operator on a finite input: Stream.scan emits its first
\* accumulator, then one accumulator per input value.
RECURSIVE scanned(_, _)
scanned(a, in) ==
    IF in = <<>> THEN <<>>
    ELSE emits(scanStep(a, Head(in))) \o scanned(scanStep(a, Head(in)), Tail(in))
streamDistinctUntilChanged(in) == emits(scanInitial) \o scanned(scanInitial, in)

\* Value x runs through scan, filter and map.
distinctPush(x) ==
    /\ input' = Append(input, x)
    /\ scanState' = scanStep(scanState, x)
    /\ output' = output \o emits(scanStep(scanState, x))
    /\ UNCHANGED eq

\* The upstream emits value x.
Push(x) ==
    /\ Len(input) < MaxLen
    /\ distinctPush(x)
    /\ UNCHANGED notDistinctVars

DistinctInit ==
    /\ eq \in SUBSET (Values \X Values) \cup {StrictEquality}
    /\ input = <<>>
    /\ scanState = scanInitial
    /\ output = emits(scanInitial)

DistinctNext == \E x \in Values : Push(x)

(***************************************************************************)
(* The store action bridge: subscribeStoreActionEnhancerFactory.           *)
(***************************************************************************)

\* Actions carry the amount the reducer adds to the state; every action of
\* the bridge's runs changes the state, so that the state before a dispatch
\* and the state after it differ.
Actions == {1}
reducer(state, action) == state + action

\* store.dispatch(action) of the underlying store returns the action.
storeDispatchResult(action) == action

\* The array entries whose function is not fn, in order.
RECURSIVE filterFn(_, _)
filterFn(ls, fn) ==
    IF ls = <<>> THEN <<>>
    ELSE IF Head(ls).fn = fn THEN filterFn(Tail(ls), fn)
         ELSE <<Head(ls)>> \o filterFn(Tail(ls), fn)

\* A subscribeAction that puts the listener in front.
push_front(ls, entry) == <<entry>> \o ls

\* part_001:36: listeners.push(listener).
push(ls, entry) == Append(ls, entry)

\* part_001:39: listeners = listeners.filter(l => l !== listener).
unsubscribe(ls, fn) == filterFn(ls, fn)

\* An unsubscribe that removes the listener from the array in place.
iteratedAfterUnsubscribe_inPlace(targets, fn) == filterFn(targets, fn)

\* part_001:39 assigns a new array to `listeners`: the array a forEach in
\* progress iterates is left as it is.
iteratedAfterUnsubscribe(targets, fn) == targets

\* A forEach that also visits an entry pushed after it started.
iteratedAfterSubscribe_visited(targets, entry) == Append(targets, entry)

\* part_001:25, 36: listeners.push(listener) appends to the array in place,
\* and forEach visits the range the array had when it started.
iteratedAfterSubscribe(targets, entry) == targets

\* A snapshot read after the underlying dispatch.
stateSnapshot_after(pre, post) == post

\* part_001:23-24: the snapshot is read before store.dispatch(action) runs.
stateSnapshot(pre, post) == pre

\* A listener call without the try/catch.
invokeGuarded_rethrows(throws) == IF throws THEN "thrown" ELSE "returned"

\* part_001:26-31: the listener call is wrapped in try/catch; an error is
\* logged.
invokeGuarded(throws) == IF throws THEN "logged" ELSE "returned"

\* The dispatch calls in progress.
OnStack == {stack[i].dispatch : i \in 1..Len(stack)}

\* part_001:23-25: a dispatch call up to the start of listeners.forEach.
\* The range forEach visits is fixed when it starts.  Of a dispatch call,
\* beside its action, the state before and after its reducer and the array
\* its forEach iterates: how deep it is nested, whether a listener still to
\* be called was unsubscribed during it, whether an error of a listener
\* that is not the last was caught, how it ended, the tickets registered
\* when it was called and those subscribed by a listener during it.
dispatchRecord(action) ==
    [action |-> action, pre |-> storeState, post |-> reducer(storeState, action),
     targets |-> listeners, depth |-> Len(stack), unsubDuring |-> FALSE,
     caught |-> FALSE, done |-> FALSE, threw |-> FALSE, result |-> NULL,
     registeredAtCall |-> registered, subscribedDuring |-> {}]
dispatchFrame(action) ==
    [dispatch |-> Len(dispatched) + 1,
     snapshot |-> stateSnapshot(storeState, reducer(storeState, action)),
     targets |-> listeners, idx |-> 1]

\* What a listener does when it is called: it returns, throws, or unsubscribes
\* a listener (itself or another); a re-entrant one subscribes a listener or
\* dispatches an action.
PlainBehaviours ==
    {[kind |-> k, arg |-> NULL] : k \in {"return", "throw"}}
    \cup {[kind |-> "unsubscribe", arg |-> fn] : fn \in ListenerFns}
EmitBehaviour == [kind |-> "emit", arg |-> NULL]
Behaviours ==
    PlainBehaviours
    \cup {[kind |-> "subscribe", arg |-> fn] : fn \in ListenerFns}
    \cup {[kind |-> "dispatch", arg |-> a] : a \in Actions}

\* Dispatch calls in progress whose forEach has yet to call a listener
\* with function fn.
Awaiting(fn) ==
    {stack[i].dispatch : i \in {j \in 1..Len(stack) :
        \E k \in (stack[j].idx + 1)..Len(stack[j].targets) :
            stack[j].targets[k].fn = fn}}

\* core.ts:52-54: the listener storeActionStream subscribes.
StreamFn == 0

\* The functions a subscribeAction call may pass: one subscribed before, or
\* the next new one (functions are numbered in the order they first appear).
Subscribable ==
    {fn \in ListenerFns :
        fn <= Cardinality({tickets[i] : i \in 1..Len(tickets)} \ {StreamFn}) + 1}

\* Selectors passed to makeStateStream: the state itself, and a selector
\* under which neighbouring states give the same value.
Selectors == {"state", "half"}
select(sel, state) == IF sel = "state" THEN state ELSE state \div 2

\* Both sides of the merge are started one at a time, other fibers running
\* between them.
startsTogether_apart == FALSE

\* core.ts:98-105: the fiber that runs Stream.merge forks its two sides
\* one right after the other and the scheduler runs them in that order in
\* one synchronous drain: between the read of the initial state and the
\* subscribeAction call no other code runs.
startsTogether == TRUE

\* store.dispatch(action) called from outside any listener.
Dispatch(action) ==
    /\ stack = <<>>
    /\ streamPc = "read" => ~startsTogether
    /\ Len(dispatched) < MaxDispatches
    /\ storeState' = reducer(storeState, action)
    /\ dispatched' = Append(dispatched, dispatchRecord(action))
    /\ stack' = <<dispatchFrame(action)>>
    /\ UNCHANGED <<listeners, deliveries, tickets, registered>>
    /\ UNCHANGED notBridgeVars

\* store.subscribeAction(fn) called from outside any listener.
Subscribe(fn) ==
    /\ stack = <<>>
    /\ fn \in Subscribable
    /\ Len(tickets) < MaxSubscribes
    /\ listeners' = push(listeners, [fn |-> fn, ticket |-> Len(tickets) + 1])
    /\ tickets' = Append(tickets, fn)
    /\ registered' = registered \cup {Len(tickets) + 1}
    /\ UNCHANGED <<storeState, stack, dispatched, deliveries>>
    /\ UNCHANGED notBridgeVars

\* The unsubscribe function returned for fn, called from outside any listener.
Unsubscribe(fn) ==
    /\ stack = <<>>
    /\ \E i \in 1..Len(tickets) : tickets[i] = fn
    /\ listeners' = unsubscribe(listeners, fn)
    /\ registered' = {k \in registered : tickets[k] # fn}
    /\ UNCHANGED <<storeState, stack, dispatched, deliveries, tickets>>
    /\ UNCHANGED notBridgeVars

\* part_001:25-32: forEach calls the next listener of the innermost dispatch
\* in progress; the listener does b.
Invoke(b) ==
    /\ stack # <<>>
    /\ LET top == Len(stack)
           f == stack[top]
           outcome == invokeGuarded(b.kind = "throw")
           advanced == [stack EXCEPT ![top].idx = @ + 1]
       IN  /\ f.idx <= Len(f.targets)
           /\ f.targets[f.idx].fn = StreamFn <=> b = EmitBehaviour
           /\ IF b = EmitBehaviour
                THEN /\ events' = Append(events,
                           [dispatch |-> f.dispatch, stateSnapshot |-> f.snapshot,
                            state |-> storeState])
                     /\ streamPc = "running" =>
                           distinctPush(select(selector, storeState))
                     /\ streamPc # "running" => UNCHANGED distinctVars
                ELSE UNCHANGED <<distinctVars, events>>
           /\ deliveries' = Append(deliveries,
                  [dispatch |-> f.dispatch, listener |-> f.targets[f.idx],
                   snapshot |-> f.snapshot, reduced |-> Len(dispatched)])
           /\ CASE b.kind \in {"return", "emit"} ->
                     /\ stack' = advanced
                     /\ UNCHANGED <<storeState, listeners, dispatched, tickets,
                                    registered>>
                [] b.kind = "throw" ->
                     /\ IF outcome = "thrown"
                          THEN /\ stack' = <<>>
                               /\ dispatched' =
                                    [d \in 1..Len(dispatched) |->
                                       IF d \in OnStack
                                         THEN [dispatched[d] EXCEPT !.threw = TRUE]
                                         ELSE dispatched[d]]
                          ELSE /\ stack' = advanced
                               /\ dispatched' = [dispatched EXCEPT
                                      ![f.dispatch].caught =
                                          @ \/ f.idx < Len(f.targets)]
                     /\ UNCHANGED <<storeState, listeners, tickets, registered>>
                [] b.kind = "unsubscribe" ->
                     /\ \E i \in 1..Len(tickets) : tickets[i] = b.arg
                     /\ listeners' = unsubscribe(listeners, b.arg)
                     /\ registered' = {k \in registered : tickets[k] # b.arg}
                     /\ stack' = [i \in 1..top |->
                                    [advanced[i] EXCEPT !.targets =
                                       iteratedAfterUnsubscribe(@, b.arg)]]
                     /\ dispatched' =
                          [d \in 1..Len(dispatched) |->
                             IF d \in Awaiting(b.arg)
                               THEN [dispatched[d] EXCEPT !.unsubDuring = TRUE]
                               ELSE dispatched[d]]
                     /\ UNCHANGED <<storeState, tickets>>
                [] b.kind = "subscribe" ->
                     /\ b.arg \in Subscribable
                     /\ Len(tickets) < MaxSubscribes
                     /\ listeners' = push(listeners,
                            [fn |-> b.arg, ticket |-> Len(tickets) + 1])
                     /\ tickets' = Append(tickets, b.arg)
                     /\ registered' = registered \cup {Len(tickets) + 1}
                     /\ stack' = [i \in 1..top |->
                                    [advanced[i] EXCEPT !.targets =
                                       iteratedAfterSubscribe(@,
                                           [fn |-> b.arg, ticket |-> Len(tickets) + 1])]]
                     /\ dispatched' =
                          [d \in 1..Len(dispatched) |->
                             IF d \in OnStack
                               THEN [dispatched[d] EXCEPT !.subscribedDuring =
                                        @ \cup {Len(tickets) + 1}]
                               ELSE dispatched[d]]
                     /\ UNCHANGED storeState
                [] b.kind = "dispatch" ->
                     /\ Len(dispatched) < MaxDispatches
                     /\ storeState' = reducer(storeState, b.arg)
                     /\ dispatched' = Append(dispatched, dispatchRecord(b.arg))
                     /\ stack' = Append(advanced, dispatchFrame(b.arg))
                     /\ UNCHANGED <<listeners, tickets, registered>>
    /\ UNCHANGED <<selector, streamPc, subscribedAt>>
    /\ UNCHANGED notStoreVars

dispatchReturns_nothing(res) == NULL

\* part_001:24, 33: `const res = store.dispatch(action)` ... `return res`.
dispatchReturns(res) == res

\* part_001:33: forEach has visited its range; the dispatch call returns res.
DispatchReturn ==
    /\ stack # <<>>
    /\ LET f == stack[Len(stack)]
       IN  /\ f.idx > Len(f.targets)
           /\ stack' = SubSeq(stack, 1, Len(stack) - 1)
           /\ dispatched' = [dispatched EXCEPT
                  ![f.dispatch].done = TRUE,
                  ![f.dispatch].result =
                      dispatchReturns(
                          storeDispatchResult(dispatched[f.dispatch].action))]
    /\ UNCHANGED <<storeState, listeners, deliveries, tickets, registered>>
    /\ UNCHANGED notBridgeVars

BridgeInit ==
    /\ storeState = 0
    /\ listeners = <<>>
    /\ stack = <<>>
    /\ dispatched = <<>>
    /\ deliveries = <<>>
    /\ tickets = <<>>
    /\ registered = {}

BridgeNext ==
    \/ \E a \in Actions : Dispatch(a)
    \/ \E fn \in ListenerFns : Subscribe(fn)
    \/ \E fn \in ListenerFns : Unsubscribe(fn)
    \/ \E b \in PlainBehaviours : Invoke(b)
    \/ DispatchReturn

ReentrantNext ==
    \/ \E a \in Actions : Dispatch(a)
    \/ \E fn \in ListenerFns : Subscribe(fn)
    \/ \E fn \in ListenerFns : Unsubscribe(fn)
    \/ \E b \in Behaviours : Invoke(b)
    \/ DispatchReturn

\* The bridge with listeners that subscribe and unsubscribe listeners from
\* inside their callback, while a broadcast is in progress.
ListenerSetNext ==
    \/ \E a \in Actions : Dispatch(a)
    \/ \E fn \in ListenerFns : Subscribe(fn)
    \/ \E b \in {[kind |-> "return", arg |-> NULL]}
                 \cup {[kind |-> k, arg |-> fn] :
                          k \in {"subscribe", "unsubscribe"}, fn \in ListenerFns} :
          Invoke(b)
    \/ DispatchReturn

\* core.ts:99-104: the first side of the merge reads the state; the value
\* runs through Stream.map(selector) and streamDistinctUntilChanged.
ReadInitial ==
    /\ stack = <<>>
    /\ streamPc = "idle"
    /\ streamPc' = "read"
    /\ subscribedAt' = Len(dispatched)
    /\ distinctPush(select(selector, storeState))
    /\ UNCHANGED <<selector, events>>
    /\ UNCHANGED bridgeVars
    /\ UNCHANGED notStoreVars

\* core.ts:48-55, 105: the second side of the merge starts storeActionStream,
\* which subscribes its listener to the store.
Register ==
    /\ stack = <<>>
    /\ streamPc = "read"
    /\ streamPc' = "running"
    /\ listeners' = push(listeners, [fn |-> StreamFn, ticket |-> Len(tickets) + 1])
    /\ tickets' = Append(tickets, StreamFn)
    /\ registered' = registered \cup {Len(tickets) + 1}
    /\ UNCHANGED <<storeState, stack, dispatched, deliveries>>
    /\ UNCHANGED <<selector, subscribedAt, events>>
    /\ UNCHANGED distinctVars
    /\ UNCHANGED notStoreVars

StreamInit ==
    /\ selector \in Selectors
    /\ streamPc = "idle"
    /\ subscribedAt = 0
    /\ events = <<>>

\* A store with listeners that return or dispatch from inside their
\* callback, and one makeStateStream run on it.
StateStreamNext ==
    \/ \E a \in Actions : Dispatch(a)
    \/ \E fn \in ListenerFns : Subscribe(fn)
    \/ \E b \in {[kind |-> "return", arg |-> NULL], EmitBehaviour}
                 \cup {[kind |-> "dispatch", arg |-> a] : a \in Actions} : Invoke(b)
    \/ DispatchReturn
    \/ ReadInitial
    \/ Register

(***************************************************************************)
(* Saga fibers and the scope of the stream they consume: the subscription  *)
(* of storeActionStream is an acquireRelease in the scope of the stream.   *)
(***************************************************************************)

\* How a consumption ends with the exit of its fiber.
EndOf(exit) ==
    IF ~Exit_isFailure(exit) THEN "completion"
    ELSE IF Cause_isInterruptedOnly(exit.cause) THEN "cancellation"
    ELSE "failure"

release_never(ls) == ls

\* core.ts:56: the release of acquireRelease calls the unsubscribe function
\* that subscribeAction returned for the stream's listener.
release(ls) == unsubscribe(ls, StreamFn)

\* The scope of the stream that fiber f consumes closes, ending `how`: the
\* release runs. A fiber that consumes no stream has nothing to release.
closeScope(f, how) ==
    IF streamOwner = f /\ streamPc = "consuming"
      THEN /\ listeners' = release(listeners)
           /\ registered' = {k \in registered : tickets[k] # StreamFn}
           /\ streamPc' = "ended"
           /\ consumerEnd' = how
      ELSE UNCHANGED <<listeners, registered, streamPc, consumerEnd>>

\* A fiber exits, outside any dispatch: the scopes of its streams close,
\* then its observer runs: it clears the record when the record still holds
\* this fiber, and reports a failure that is not an interruption only.
FiberExit(f, exit) ==
    /\ exit \in ExitsOf(fibers[f].status)
    /\ stack = <<>>
    /\ closeScope(f, EndOf(exit))
    /\ fibers' = [fibers EXCEPT ![f].status = "done", ![f].exit = exit]
    /\ running' = IF observerClears(running, f) THEN NoRunning ELSE running
    /\ errors' = [errors EXCEPT ![f] = @ + onErrorCalls(running, f, exit)]
    /\ UNCHANGED <<storeDefer, calls, rendezvousVars>>
    /\ UNCHANGED <<storeState, stack, dispatched, deliveries, tickets>>
    /\ UNCHANGED <<selector, subscribedAt, events, streamOwner>>
    /\ UNCHANGED <<combVars, distinctVars, combineVars, takeVars>>

\* core.ts:48-55: the saga of fiber f starts to consume an action stream:
\* the acquire of acquireRelease subscribes the stream's listener. A stream
\* that was built and is not consumed has subscribed nothing.
ConsumeActions(f) ==
    /\ stack = <<>>
    /\ fibers[f].status = "running"
    /\ streamPc \in {"idle", "ended"}
    /\ Len(tickets) < MaxSubscribes
    /\ streamPc' = "consuming"
    /\ streamOwner' = f
    /\ consumerEnd' = "none"
    /\ listeners' = push(listeners, [fn |-> StreamFn, ticket |-> Len(tickets) + 1])
    /\ tickets' = Append(tickets, StreamFn)
    /\ registered' = registered \cup {Len(tickets) + 1}
    /\ UNCHANGED <<storeState, stack, dispatched, deliveries>>
    /\ UNCHANGED <<selector, subscribedAt, events>>
    /\ UNCHANGED <<combVars, runnerVars, rendezvousVars, distinctVars, combineVars,
                   takeVars>>

\* The consumer ends while its saga goes on: take has its element
\* (completion), takeLatest switches away from the handler that consumes
\* (cancellation), or the consumer fails and the saga recovers (failure).
ConsumerEnds(how) ==
    /\ stack = <<>>
    /\ streamPc = "consuming"
    /\ fibers[streamOwner].status = "running"
    /\ closeScope(streamOwner, how)
    /\ UNCHANGED <<storeState, stack, dispatched, deliveries, tickets>>
    /\ UNCHANGED <<selector, subscribedAt, events, streamOwner>>
    /\ UNCHANGED <<combVars, runnerVars, rendezvousVars, distinctVars, combineVars,
                   takeVars>>

ConsumerInit ==
    /\ streamOwner = NULL
    /\ consumerEnd = "none"

\* The actions dispatched to a store whose actions are matched by type: the
\* action of type t, for each type (it adds t to the state).
TypedActions == 1..MaxTypes

\* The arguments of actionPattern: none, or the array of the types.
PatternTypes ==
    {[given |-> FALSE, types |-> {}]}
    \cup {[given |-> TRUE, types |-> ts] : ts \in SUBSET TypedActions}

\* core.ts:64-81: actionPattern(type) applied to an action. An action
\* without a type matches nothing, no type given matches every action,
\* else the action's type is one of the types given.
actionPattern(type, action) ==
    IF action \notin TypedActions THEN FALSE
    ELSE IF ~type.given THEN TRUE
    ELSE action \in type.types

\* core.ts:83-93: the events of storeActionStream, filtered by the pattern.
makeActionStream(type) ==
    SelectSeq(events, LAMBDA ev : actionPattern(type, dispatched[ev.dispatch].action))

\* A runner started on a store (call 1) and then stopped or switched to
\* another saga (call 2); the saga that runs consumes an action stream,
\* ends a consumption and may consume again; actions are dispatched.
ScopedNext ==
    \/ BindStore
    \/ StartCall(1)
    \/ StartResume(1)
    \/ StopCall(2)
    \/ StopResume(2)
    \/ SwitchSagaCall(2)
    \/ SwitchSagaResume(2)
    \/ \E f \in FiberIds : \E exit \in ExitsOf(fibers[f].status) : FiberExit(f, exit)
    \/ \E f \in FiberIds : ConsumeActions(f)
    \/ \E how \in {"completion", "cancellation", "failure"} : ConsumerEnds(how)
    \/ \E a \in Actions : Dispatch(a)
    \/ Invoke(EmitBehaviour)
    \/ DispatchReturn

\* A store with listeners that return or dispatch from inside their
\* callback, and a started saga that consumes an action stream on it.
ActionStreamNext ==
    \/ BindStore
    \/ StartCall(1)
    \/ StartResume(1)
    \/ ConsumeActions(1)
    \/ ConsumerEnds("completion")
    \/ \E a \in TypedActions : Dispatch(a)
    \/ \E fn \in ListenerFns : Subscribe(fn)
    \/ \E b \in {[kind |-> "return", arg |-> NULL], EmitBehaviour}
                 \cup {[kind |-> "dispatch", arg |-> a] : a \in TypedActions} : Invoke(b)
    \/ DispatchReturn

RunnerNext ==
    \/ BindStore
    \/ \E c \in CallIds : StartCall(c)
    \/ \E c \in CallIds : StartResume(c)
    \/ \E c \in CallIds : StopCall(c)
    \/ \E c \in CallIds : StopResume(c)
    \/ \E c \in CallIds : SwitchSagaCall(c)
    \/ \E c \in CallIds : SwitchSagaResume(c)
    \/ \E f \in FiberIds : SagaStep(f)
    \/ \E f \in FiberIds : \E exit \in ExitsOf(fibers[f].status) : FiberExit(f, exit)

(***************************************************************************)
(* take: the first element of a stream, collected into a chunk.            *)
(***************************************************************************)

taken_two(collected) == Len(collected) >= 2

\* Stream.take(1): the stream ends downstream, and is pulled no more, once
\* one element has passed.
taken(collected) == Len(collected) >= 1

unsafeGet_orUndefined(c, index) ==
    IF index < Len(c) THEN [threw |-> FALSE, value |-> c[index + 1]]
    ELSE [threw |-> FALSE, value |-> NULL]

\* Chunk.unsafeGet(chunk, index): the element at the index, counted from 0;
\* it throws ("Index out of bounds") when the chunk has no such element.
unsafeGet(c, index) ==
    IF index < Len(c) THEN [threw |-> FALSE, value |-> c[index + 1]]
    ELSE [threw |-> TRUE, value |-> NULL]

\* Effect.map(chunk => Chunk.unsafeGet(chunk, 0)) on the collected chunk:
\* an exception thrown by the function is a defect of the effect.
takeResult(c) ==
    LET got == unsafeGet(c, 0)
    IN  IF got.threw THEN [exit |-> Failure({"Die"}), value |-> NULL]
        ELSE [exit |-> Success, value |-> got.value]

\* Stream.runCollect returns the chunk c: take ends, and as the root saga
\* of a runner its exit goes to the fiber observer.
takeEnds(c) ==
    /\ chunk' = c
    /\ takePc' = "done"
    /\ takeExit' = takeResult(c).exit
    /\ takeValue' = takeResult(c).value
    /\ takeReported' = takeReported + onErrorCalls(NoRunning, NULL, takeResult(c).exit)

\* take(stream) is run: it suspends on the stream.
TakeRun ==
    /\ takePc = "idle"
    /\ takePc' = "running"
    /\ UNCHANGED <<offered, offeredEnded, chunk, takeExit, takeValue, takeReported>>
    /\ UNCHANGED notTakeVars

\* The stream produces the element v. While take runs, the element is
\* collected, and take ends when Stream.take has its count.
TakeOffer(v) ==
    /\ takePc # "idle" /\ ~offeredEnded
    /\ Len(offered) < MaxLen
    /\ offered' = Append(offered, v)
    /\ IF takePc = "running"
         THEN IF taken(Append(chunk, v))
                THEN takeEnds(Append(chunk, v))
                ELSE /\ chunk' = Append(chunk, v)
                     /\ UNCHANGED <<takePc, takeExit, takeValue, takeReported>>
         ELSE UNCHANGED <<takePc, chunk, takeExit, takeValue, takeReported>>
    /\ UNCHANGED offeredEnded
    /\ UNCHANGED notTakeVars

\* The stream ends. While take runs, Stream.runCollect returns what was
\* collected.
TakeStreamEnds ==
    /\ takePc # "idle" /\ ~offeredEnded
    /\ offeredEnded' = TRUE
    /\ IF takePc = "running"
         THEN takeEnds(chunk)
         ELSE UNCHANGED <<takePc, chunk, takeExit, takeValue, takeReported>>
    /\ UNCHANGED offered
    /\ UNCHANGED notTakeVars

TakeInit ==
    /\ takePc = "idle"
    /\ offered = <<>>
    /\ offeredEnded = FALSE
    /\ chunk = <<>>
    /\ takeExit = NoExit
    /\ takeValue = NULL
    /\ takeReported = 0

TakeNext ==
    \/ TakeRun
    \/ \E v \in Values : TakeOffer(v)
    \/ TakeStreamEnds

(***************************************************************************)
(* combineSagas: Effect.all(sagas, { concurrency: 'unbounded' }). One      *)
(* fiber is forked per saga; each fork and each interruption is a task of  *)
(* the scheduler, and the tasks of one drain run in the order they were    *)
(* scheduled, with no timer in between.                                   *)
(***************************************************************************)

Children == 1..MaxSagas

\* The sagas of the runs: Effect.sync (one side effect, then success),
\* Effect.fail (no side effect, an immediate failure), and a saga that
\* performs a side effect and suspends, to take further steps later.
SagaKinds == {"sync", "fail", "long"}

scheduleTask_first(queue, task) == <<task>> \o queue

\* scheduler.scheduleTask(task, 0): tasks of one priority run first in,
\* first out.
scheduleTask(queue, task) == Append(queue, task)

RECURSIVE scheduleAll(_, _, _)
\* The tasks of kind `kind` for the children of `cs` are scheduled in the
\* order of the children.
scheduleAll(queue, kind, cs) ==
    IF cs = {} THEN queue
    ELSE LET c == CHOOSE x \in cs : \A y \in cs : x <= y
         IN  scheduleAll(scheduleTask(queue, [kind |-> kind, child |-> c]),
                         kind, cs \ {c})

\* The fibers Effect.all still holds: those that have not exited.
LiveChildren(pc) == {c \in Children : pc[c] # "done"}

joined_atFirstFailure == \E c \in Children : Exit_isFailure(childExit[c])

\* Effect.all has the exit of every fiber (results.length === target): the
\* fiber that joins them resumes.
joined == \A c \in Children : childPc[c] = "done"

\* The observer Effect.all puts on each fiber: it records the exit; the
\* first failure interrupts every fiber that has not exited.
childExits(c, exit, queue) ==
    /\ childPc' = [childPc EXCEPT ![c] = "done"]
    /\ childExit' = [childExit EXCEPT ![c] = exit]
    /\ interrupted' = (interrupted \/ Exit_isFailure(exit))
    /\ taskQueue' =
          IF Exit_isFailure(exit) /\ ~interrupted
            THEN scheduleAll(queue, "interrupt", LiveChildren(childPc) \ {c})
            ELSE queue

\* combineSagas(...sagas) is run: every saga gets a fiber, and the start of
\* each fiber is scheduled, in the order of the arguments.
CombineSagas(kinds) ==
    /\ sagas = <<>>
    /\ sagas' = kinds
    /\ taskQueue' = scheduleAll(taskQueue, "resume", Children)
    /\ UNCHANGED <<childPc, childExit, interrupted, pendingInterrupt, sideEffects,
                   childSteps, combExit>>
    /\ UNCHANGED notCombineVars

\* The scheduler runs the start of a fiber: the saga runs to its first
\* suspension point. A fiber that was interrupted before its start exits
\* without running its saga.
ResumeTask ==
    /\ taskQueue # <<>> /\ Head(taskQueue).kind = "resume"
    /\ LET c == Head(taskQueue).child
           rest == Tail(taskQueue)
           runs == c \notin pendingInterrupt
       IN  /\ sideEffects' = IF runs /\ sagas[c] # "fail"
                               THEN sideEffects \cup {c} ELSE sideEffects
           /\ CASE ~runs -> childExits(c, Failure({"Interrupt"}), rest)
                [] runs /\ sagas[c] = "fail" -> childExits(c, Failure({"Fail"}), rest)
                [] runs /\ sagas[c] = "sync" -> childExits(c, Success, rest)
                [] runs /\ sagas[c] = "long" ->
                     /\ childPc' = [childPc EXCEPT ![c] = "suspended"]
                     /\ taskQueue' = rest
                     /\ UNCHANGED <<childExit, interrupted>>
    /\ UNCHANGED <<sagas, pendingInterrupt, childSteps, combExit>>
    /\ UNCHANGED notCombineVars

\* The scheduler runs the interruption of a fiber: a suspended saga exits
\* interrupted, a fiber not started yet keeps the interruption for its
\* start, a fiber that has exited ignores it.
InterruptTask ==
    /\ taskQueue # <<>> /\ Head(taskQueue).kind = "interrupt"
    /\ LET c == Head(taskQueue).child
       IN  IF childPc[c] = "suspended"
             THEN /\ childExits(c, Failure({"Interrupt"}), Tail(taskQueue))
                  /\ UNCHANGED pendingInterrupt
             ELSE /\ pendingInterrupt' =
                        IF childPc[c] = "unstarted"
                          THEN pendingInterrupt \cup {c} ELSE pendingInterrupt
                  /\ taskQueue' = Tail(taskQueue)
                  /\ UNCHANGED <<childPc, childExit, interrupted>>
    /\ UNCHANGED <<sagas, sideEffects, childSteps, combExit>>
    /\ UNCHANGED notCombineVars

\* A suspended saga is resumed by a timer or an event, after the scheduler
\* has run its tasks: it takes a further step and then suspends again,
\* succeeds or fails.
ChildStep(c, outcome) ==
    /\ childPc[c] = "suspended"
    /\ taskQueue = <<>>
    /\ childSteps[c] < MaxSteps
    /\ childSteps' = [childSteps EXCEPT ![c] = @ + 1]
    /\ IF outcome = "suspend"
         THEN UNCHANGED <<childPc, childExit, interrupted, taskQueue>>
         ELSE childExits(c, IF outcome = "fail" THEN Failure({"Fail"}) ELSE Success,
                         taskQueue)
    /\ UNCHANGED <<sagas, pendingInterrupt, sideEffects, combExit>>
    /\ UNCHANGED notCombineVars

\* The combined saga ends: with the values when every saga succeeded, else
\* with the failures of its sagas.
CombineEnds ==
    /\ sagas # <<>>
    /\ combExit = NoExit
    /\ joined
    /\ combExit' =
          LET causes == UNION {childExit[c].cause : c \in Children}
          IN  IF causes = {} THEN Success ELSE Failure(causes)
    /\ UNCHANGED <<sagas, childPc, childExit, taskQueue, interrupted,
                   pendingInterrupt, sideEffects, childSteps>>
    /\ UNCHANGED notCombineVars

CombineInit ==
    /\ sagas = <<>>
    /\ childPc = [c \in Children |-> "unstarted"]
    /\ childExit = [c \in Children |-> NoExit]
    /\ taskQueue = <<>>
    /\ interrupted = FALSE
    /\ pendingInterrupt = {}
    /\ sideEffects = {}
    /\ childSteps = [c \in Children |-> 0]
    /\ combExit = NoExit

CombineNext ==
    \/ \E kinds \in [Children -> SagaKinds] : CombineSagas(kinds)
    \/ ResumeTask
    \/ InterruptTask
    \/ \E c \in Children, outcome \in {"suspend", "succeed", "fail"} :
          ChildStep(c, outcome)
    \/ CombineEnds

\* The state after construction: no stream element yet, a runner just created,
\* a store just created, an operator just applied, no saga combined.
Init ==
    /\ CombInit /\ RunnerInit /\ BridgeInit /\ DistinctInit /\ StreamInit
    /\ CombineInit /\ TakeInit /\ ConsumerInit

\* Either combinator, no other component in use.
InitCombinators == Init /\ eq = StrictEquality /\ selector = "state"

SpecCombinators == InitCombinators /\ [][CombNext]_vars

\* The combinators with handlers that all terminate: a handler that runs
\* eventually completes, fails or is interrupted, and a run that can end
\* ends. Nothing obliges the stream to emit or to end.
FairCombinators ==
    /\ SpecCombinators
    /\ \A e \in Elems :
          WF_vars(HandlerComplete(e) \/ HandlerInterrupted(e) \/ HandlerFail(e))
    /\ WF_vars(RunEnds)



\* The runner alone, under any interleaving of its calls and its fibers; no
\* combinator runs, so one of the two is fixed.
InitRunner == InitCombinators /\ combinator = "takeEvery"

\* take alone, on a stream of any elements that may end at any point.
SpecTake == InitRunner /\ [][TakeNext]_vars

\* The scope of an action stream's subscription under start, stop and
\* switchSaga.
SpecScopedStream == InitRunner /\ [][ScopedNext]_vars

\* makeActionStream on a store with other listeners.
SpecActionStream == InitRunner /\ [][ActionStreamNext]_vars

\* combineSagas alone.
SpecCombine == InitRunner /\ [][CombineNext]_vars

SpecRunner == InitRunner /\ [][RunnerNext]_vars

\* The rendezvous of the runner with its store: the enhancer is applied to
\* any number of store creations while start() calls wait and run.
RendezvousNext ==
    \/ \E s \in Stores : CreateStore(s)
    \/ \E c \in CallIds : StartCall(c)
    \/ \E c \in CallIds : StartResume(c)

SpecRendezvous == InitRunner /\ [][RendezvousNext]_vars

\* The rendezvous with a start() that goes on once its await can resume:
\* the continuation of a settled promise is run. Nothing obliges the
\* application to create a store or to call start().
FairRendezvous ==
    /\ SpecRendezvous
    /\ \A c \in CallIds : WF_vars(StartResume(c))

\* The record and its observers under start and switchSaga calls, a second
\* start with a saga running included.
RecordNext ==
    \/ BindStore
    \/ \E c \in CallIds : StartCall(c)
    \/ \E c \in CallIds : StartResume(c)
    \/ \E c \in CallIds : SwitchSagaCall(c)
    \/ \E c \in CallIds : SwitchSagaResume(c)
    \/ \E f \in FiberIds : \E exit \in ExitsOf(fibers[f].status) : FiberExit(f, exit)

SpecRecord == InitRunner /\ [][RecordNext]_vars

\* The bridge alone: dispatch and subscribeAction calls from outside,
\* unsubscribe calls from outside and from inside listeners.
SpecBridge == InitRunner /\ [][BridgeNext]_vars

\* The listener set under registration and removal during a broadcast.
SpecListenerSet == InitRunner /\ [][ListenerSetNext]_vars

\* The bridge with listeners that also subscribe and dispatch from inside
\* their callback.
SpecReentrant == InitRunner /\ [][ReentrantNext]_vars

\* streamDistinctUntilChanged under every isEqual over the values and every
\* input of at most MaxLen values.
InitDistinct == Init /\ combinator = "takeEvery" /\ selector = "state"

SpecDistinct == InitDistinct /\ [][DistinctNext]_vars

\* makeStateStream under either selector.
InitStateStream == Init /\ combinator = "takeEvery" /\ eq = StrictEquality

SpecStateStream == InitStateStream /\ [][StateStreamNext]_vars

(***************************************************************************)
(* Claims about the combinators, checked under SpecCombinators.            *)
(***************************************************************************)

Started(e) == \E i \in 1..Len(started) : started[i] = e
Completed(e) == \E i \in 1..Len(completed) : completed[i] = e

\* C1: takeEvery starts the handler of every element as soon as the element
\* arrives, with no cap: an element that has arrived is never left without
\* its handler started while the handler of an earlier element is in flight.
C1_TakeEveryStartsWithoutWaiting ==
    (combinator = "takeEvery" /\ failure = NULL) =>
        \A e \in Elems :
            (e <= emitted /\ hstate[e] = "none") => InFlight = {}

\* C2: in takeLatest at most one handler is in flight at any instant: a
\* handler is started only when every earlier handler has completed or its
\* cancellation has completed, and while the handler of a new element waits,
\* the handler still in flight has been cancelled.
C2_TakeLatestNoOverlap ==
    combinator = "takeLatest" =>
        /\ Cardinality(InFlight) <= 1
        /\ \A e \in Elems : Started(e) =>
              \A d \in 1..(e - 1) : hstate[d] \in {"completed", "interrupted", "failed"}
        /\ \A e \in Elems : hstate[e] = "waiting" => InFlight \subseteq cancelled

\* C2 witness: a handler was cancelled, its cancellation has completed, and
\* the handler of the next element is running.
C2_Witness ==
    /\ combinator = "takeLatest"
    /\ \E e \in Elems : /\ e + 1 \in Elems
                        /\ hstate[e] = "interrupted" /\ Started(e)
                        /\ hstate[e + 1] = "running"

StartCalls == {c \in CallIds : calls[c].op = "start"}

\* C4: whatever start, stop and switchSaga calls were made one after the
\* other (each issued when no other call was suspended), start with a saga
\* running included, at most one saga fiber forked by the runner is alive,
\* and an alive saga fiber is the one held in the record.
C4_AtMostOneAliveTask ==
    (\A c \in CallIds : ~calls[c].overlaps) =>
        /\ Cardinality(Alive) <= 1
        /\ \A f \in Alive : running.fiber = f

\* C5: a switchSaga call made with a saga in flight cancels it: the old saga
\* executes no step after the call; when the new saga is forked the old
\* fiber has exited by interruption and was not the record; and when the
\* call has returned the new saga has been forked.
C5_SwitchCancelsBeforeNewStarts ==
    \A c \in CallIds :
        (calls[c].op = "switchSaga" /\ calls[c].target # NULL) =>
            LET old == calls[c].target
            IN  /\ fibers[old].steps = calls[c].targetSteps
                /\ fibers[c].status # "none" =>
                      /\ fibers[old].status = "done"
                      /\ "Interrupt" \in fibers[old].exit.cause
                      /\ calls[c].recordBefore.fiber # old
                /\ calls[c].pc = "done" =>
                      /\ fibers[c].status # "none"
                      /\ fibers[c].saga = "switched"

\* C5 witness: a switchSaga call has returned, the saga it found in flight
\* has exited and the new saga runs.
C5_Witness ==
    \E c \in CallIds :
        /\ calls[c].op = "switchSaga" /\ calls[c].pc = "done"
        /\ calls[c].target # NULL
        /\ fibers[calls[c].target].status = "done"
        /\ fibers[c].status = "running" /\ fibers[c].steps = MaxSteps

\* C6: the runner serializes its transitions; in particular, on a runner
\* started once, overlapping calls never leave two sagas alive, and when no
\* call is suspended an empty record means that no saga is alive.
C6_TransitionsSerialized ==
    Cardinality(StartCalls) <= 1 =>
        /\ Cardinality(Alive) <= 1
        /\ (Quiescent /\ running = NoRunning) => Alive = {}

\* C7: onError is not invoked for a saga fiber that has not exited, that
\* exited in success, or that exited by interruption only.
C7_NoErrorForCancellationOrSuccess ==
    \A f \in FiberIds :
        (\/ fibers[f].status # "done"
         \/ fibers[f].exit.tag = "Success"
         \/ fibers[f].exit.cause \subseteq {"Interrupt"}) => errors[f] = 0

\* C7 witness: a saga cancelled through stop and one that ended in success,
\* neither reported.
C7_Witness ==
    /\ \E c \in CallIds :
          /\ calls[c].op = "stop" /\ calls[c].pc = "done" /\ calls[c].target # NULL
          /\ fibers[calls[c].target].exit = Failure({"Interrupt"})
          /\ errors[calls[c].target] = 0
    /\ \E f \in FiberIds : fibers[f].exit = Success /\ errors[f] = 0

\* C8: a saga fiber forked by start or by switchSaga that exits in a failure
\* holding a leaf other than interruption is reported to onError exactly
\* once, and no fiber is reported twice.
C8_GenuineFailureReportedOnce ==
    \A f \in FiberIds :
        /\ errors[f] <= 1
        /\ (/\ fibers[f].status = "done"
            /\ fibers[f].exit.tag = "Failure"
            /\ fibers[f].exit.cause \cap {"Fail", "Die"} # {}) => errors[f] = 1

\* C8 witness: a saga forked by switchSaga has failed and was reported once,
\* and so was a root saga that was no longer the record when it failed.
C8_Witness ==
    /\ \E f \in FiberIds :
          /\ fibers[f].saga = "switched"
          /\ fibers[f].exit = Failure({"Fail"}) /\ errors[f] = 1
    /\ \E f \in FiberIds :
          /\ fibers[f].saga = "root"
          /\ fibers[f].exit = Failure({"Fail"}) /\ errors[f] = 1

\* The state part of C9: when a stop call made with a saga in flight has
\* returned, that saga
\* has exited by interruption, has executed no step since the call, and the
\* record was empty at the return; a stop call made with no record returns
\* at once and changes nothing.
C9_StopState ==
    \A c \in CallIds :
        (calls[c].op = "stop" /\ calls[c].pc = "done") =>
            IF calls[c].target # NULL
              THEN /\ fibers[calls[c].target].status = "done"
                   /\ "Interrupt" \in fibers[calls[c].target].exit.cause
                   /\ fibers[calls[c].target].steps = calls[c].targetSteps
                   /\ calls[c].recordAtReturn = NoRunning
              ELSE /\ calls[c].recordBefore = NoRunning
                   /\ calls[c].recordAtReturn = NoRunning

\* The step of a stop call made with no record.
C9_StopNoOpStep ==
    \A c \in CallIds :
        (calls[c].op = "none" /\ calls'[c].op = "stop" /\ running = NoRunning) =>
            /\ calls'[c].pc = "done"
            /\ UNCHANGED <<storeDefer, running, fibers, errors>>

\* C9: stop() with a saga in flight cancels it, returns only after the
\* cancellation has completed and leaves the record empty, and the stopped
\* saga executes no further step; stop() with no record changes nothing.
C9_StopCancelsAndClears == []C9_StopState /\ [][C9_StopNoOpStep]_vars

\* C9 witness: a stop call with a saga in flight has returned, and a later
\* stop call found no record.
C9_Witness ==
    \E c, d \in CallIds :
        /\ c < d
        /\ calls[c].op = "stop" /\ calls[c].pc = "done" /\ calls[c].target # NULL
        /\ calls[d].op = "stop" /\ calls[d].pc = "done" /\ calls[d].target = NULL

\* The state part of C10: a switchSaga call made with no record returns at
\* once, the record is empty when it returns, and its saga is never
\* forked.
C10_SwitchIdleState ==
    \A c \in CallIds :
        (calls[c].op = "switchSaga" /\ calls[c].target = NULL) =>
            /\ calls[c].pc = "done"
            /\ calls[c].recordBefore = NoRunning
            /\ calls[c].recordAtReturn = NoRunning
            /\ fibers[c].status = "none"

\* The step of a switchSaga call made with no record.
C10_SwitchIdleStep ==
    \A c \in CallIds :
        (calls[c].op = "none" /\ calls'[c].op = "switchSaga"
            /\ running = NoRunning) =>
            UNCHANGED <<storeDefer, running, fibers, errors>>

\* C10: switchSaga(newSaga) with no record (before start, after stop, after
\* the saga ended on its own) is a no-op: newSaga is never forked and the
\* record stays empty.
C10_SwitchWithoutRecordIsNoOp == []C10_SwitchIdleState /\ [][C10_SwitchIdleStep]_vars

\* C10 witness: switchSaga was called before any start, after a stop, and
\* after a saga had ended on its own, and each call returned with no saga
\* forked.
C10_Witness ==
    /\ \E c \in CallIds :
          /\ calls[c].op = "switchSaga" /\ calls[c].target = NULL
          /\ calls[c].pc = "done" /\ fibers[c].status = "none"
          /\ \E d \in 1..(c - 1) :
                /\ calls[d].op = "start" /\ calls[d].pc = "done"
                /\ fibers[d].exit = Success
    /\ running = NoRunning

(***************************************************************************)
(* C11: the store rendezvous of a runner is single-assignment.             *)
(***************************************************************************)

\* C11: of the stores created through the runner's enhancer, the first is
\* bound and stays bound; every later creation throws out of the enhancer in
\* the same step; every start() that has resumed got the first store.
C11_RendezvousSingleAssignment ==
    /\ created # <<>> =>
          /\ storeDefer = "resolved"
          /\ boundStore = created[1]
    /\ createErrors = {created[i] : i \in 2..Len(created)}
    /\ \A c \in CallIds :
          calls[c].op = "start" /\ calls[c].pc = "done" =>
              calls[c].store = created[1]

\* A second creation has thrown and a start() resumed after it.
C11_Witness ==
    /\ createErrors # {}
    /\ \E c \in CallIds :
          /\ calls[c].op = "start"
          /\ calls[c].pc = "done"
          /\ calls[c].storesCreated >= 2
          /\ calls[c].store = created[1]

(***************************************************************************)
(* C12-C16: the store action bridge.                                       *)
(***************************************************************************)

\* The listener entries dispatch call d has invoked, in order.
InvokedBy(d) ==
    LET own == SelectSeq(deliveries, LAMBDA x : x.dispatch = d)
    IN  [i \in 1..Len(own) |-> own[i].listener]

\* The number of times dispatch call d has invoked the entry.
TimesInvoked(d, entry) ==
    Cardinality({i \in 1..Len(deliveries) :
        deliveries[i].dispatch = d /\ deliveries[i].listener = entry})

\* The dispatch calls a subscription has received, in order.
ReceivedBy(ticket) ==
    LET own == SelectSeq(deliveries, LAMBDA x : x.listener.ticket = ticket)
    IN  [i \in 1..Len(own) |-> own[i].dispatch]

Ascending(s) == \A i \in 1..Len(s) : \A j \in 1..Len(s) : i < j => s[i] < s[j]

\* C12: no dispatch call throws, whatever its listeners do; a dispatch call
\* that has returned returned the result of the underlying dispatch and
\* invoked every listener of its broadcast exactly once.
C12_ListenerErrorsIsolated ==
    \A d \in 1..Len(dispatched) :
        /\ ~dispatched[d].threw
        /\ dispatched[d].done =>
              /\ dispatched[d].result = dispatched[d].action
              /\ \A i \in 1..Len(dispatched[d].targets) :
                    TimesInvoked(d, dispatched[d].targets[i]) = 1

\* A dispatch call has returned during which a listener threw before the
\* last listener was called.
C12_Witness ==
    \E d \in 1..Len(dispatched) :
        /\ dispatched[d].done
        /\ dispatched[d].caught
        /\ Len(InvokedBy(d)) >= 2

\* C13: a listener is invoked after the reducer of its dispatch has run and
\* gets the state the store had before it: the initial state for the first
\* dispatch, the state the (k-1)-th dispatch produced for the k-th.
C13_SnapshotIsPriorState ==
    \A i \in 1..Len(deliveries) :
        LET d == deliveries[i].dispatch
        IN  /\ deliveries[i].reduced >= d
            /\ deliveries[i].snapshot = dispatched[d].pre
            /\ deliveries[i].snapshot # dispatched[d].post
            /\ d = 1 => deliveries[i].snapshot = 0
            /\ d > 1 => deliveries[i].snapshot = dispatched[d - 1].post

\* A listener has been invoked for a second dispatch.
C13_Witness ==
    \E i \in 1..Len(deliveries) :
        /\ deliveries[i].dispatch = 2
        /\ deliveries[i].snapshot = dispatched[1].post

\* C14: the `listeners` array holds the subscriptions not unsubscribed
\* since (an unsubscribe removes every subscription of its function), in
\* the order of their subscribeAction calls; a dispatch call that has
\* returned invoked the subscriptions registered when it was called, each
\* once, in that order.
C14_RegistrationOrder ==
    /\ Ascending([i \in 1..Len(listeners) |-> listeners[i].ticket])
    /\ {listeners[i].ticket : i \in 1..Len(listeners)} = registered
    /\ \A d \in 1..Len(dispatched) :
          dispatched[d].done =>
              LET order == [i \in 1..Len(InvokedBy(d)) |-> InvokedBy(d)[i].ticket]
              IN  /\ Ascending(order)
                  /\ {order[i] : i \in 1..Len(order)} = dispatched[d].registeredAtCall

\* A dispatch call has returned that invoked two subscriptions, made after
\* the first subscription had been unsubscribed.
C14_Witness ==
    \E d \in 1..Len(dispatched) :
        /\ dispatched[d].done
        /\ Len(InvokedBy(d)) >= 2
        /\ 1 \notin dispatched[d].registeredAtCall

C16_ReceivedInDispatchOrder ==
    \A k \in 1..Len(tickets) : Ascending(ReceivedBy(k))

(***************************************************************************)
(* C17-C18: streamDistinctUntilChanged.                                    *)
(***************************************************************************)

\* The operator the specification describes: the first value is emitted,
\* a later one when isEqual(lastEmitted, value) is false.
RECURSIVE referenceFrom(_, _)
referenceFrom(lastEmitted, in) ==
    IF in = <<>> THEN <<>>
    ELSE IF isEqual(lastEmitted, Head(in))
           THEN referenceFrom(lastEmitted, Tail(in))
           ELSE <<Head(in)>> \o referenceFrom(Head(in), Tail(in))
reference(in) ==
    IF in = <<>> THEN <<>> ELSE <<Head(in)>> \o referenceFrom(Head(in), Tail(in))

\* C17: the output has no two adjacent elements a, b with isEqual(a, b).
C17_NoAdjacentEqual ==
    \A i \in 1..(Len(output) - 1) : ~isEqual(output[i], output[i + 1])

\* C18: the output is the output of the reference operator on the same
\* input.
C18_EqualsReference == output = reference(input)

(***************************************************************************)
(* C19-C20: makeStateStream.                                               *)
(***************************************************************************)

\* The state of the store after its d-th dispatch call.
StateAfter(d) == IF d = 0 THEN 0 ELSE dispatched[d].post

\* The dispatch calls storeActionStream has emitted an event for.
Evented == {events[i].dispatch : i \in 1..Len(events)}

\* A sequence without its consecutive duplicates.
RECURSIVE dedup(_)
dedup(s) ==
    IF Len(s) <= 1 THEN s
    ELSE IF s[1] = s[2] THEN dedup(Tail(s))
         ELSE <<s[1]>> \o dedup(Tail(s))

\* The selected values of the state at subscription and of the state after
\* each later dispatch call.
SelectedStates ==
    [i \in 1..(Len(dispatched) - subscribedAt + 1) |->
        select(selector, StateAfter(subscribedAt + i - 1))]

C20_EmitsSelectedStates ==
    streamPc = "running" /\ stack = <<>> => output = dedup(SelectedStates)

\* ---------------------------------------------------------------------
\* Claims about the completion and the failure of the combinators
\* ---------------------------------------------------------------------

\* The indices 1..n in order.
UpTo(n) == [i \in 1..n |-> i]

\* The elements of a sequence.
Range(s) == {s[i] : i \in 1..Len(s)}

\* takeEvery has completed (without a failure) only if the stream has ended
\* and the handler of every element has completed.
C27_CompletedAfterAll ==
    combinator = "takeEvery" /\ combDone /\ failure = NULL
        => /\ streamEnded
           /\ \A e \in 1..emitted : hstate[e] = "completed"

\* C27: takeEvery completes only after the stream has ended and every
\* handler has completed, so it never completes while the stream has not
\* ended; once a stream has ended and its handlers terminate, takeEvery
\* eventually ends.
C27_TakeEveryCompletion ==
    /\ []C27_CompletedAfterAll
    /\ [](combinator = "takeEvery" /\ ~streamEnded /\ failure = NULL => ~combDone)
    /\ (combinator = "takeEvery" /\ streamEnded ~> combDone)

C27_Witness ==
    /\ combinator = "takeEvery" /\ combDone /\ failure = NULL
    /\ emitted >= 2 /\ superseded # {}

\* C28: once a handler of takeEvery has failed, the failure is takeEvery's,
\* every handler still in flight is cancelled, no handler has been started
\* for a later element and no later handler completes.
C28_HandlerFailureStops ==
    combinator = "takeEvery" /\ failure # NULL
        => /\ hstate[failure] = "failed"
           /\ started # <<>> /\ started[Len(started)] = failure
           /\ \A e \in Elems : e > failure => hstate[e] = "none"
           /\ InFlight \subseteq cancelled
           /\ \A e \in Range(completed) : e < failure

C28_Witness ==
    /\ combinator = "takeEvery" /\ combDone /\ failure # NULL
    /\ emitted > failure /\ Len(upstream) = emitted - failure

\* C29: the end of the stream cancels no handler of takeLatest, and
\* takeLatest has completed only if the stream has ended and the handler of
\* the last element has run to completion.
C29_LastHandlerCompletes ==
    combinator = "takeLatest" /\ failure = NULL /\ emitted >= 1
        => /\ emitted \notin cancelled
           /\ combDone => streamEnded /\ hstate[emitted] = "completed"
                                      /\ emitted \in Range(completed)

C29_Witness ==
    /\ combinator = "takeLatest" /\ combDone /\ failure = NULL
    /\ emitted >= 2 /\ superseded # {} /\ hstate[emitted] = "completed"

\* C30: takeEvery starts the handlers in the order of arrival, each at
\* most once; while no handler has failed, an element that has arrived is
\* either started or still buffered, and when takeEvery completes every
\* element has been started.
C30_OncePerElementInOrder ==
    combinator = "takeEvery"
        => /\ started = UpTo(Len(started))
           /\ failure = NULL =>
                 /\ upstream = [i \in 1..(emitted - Len(started)) |-> Len(started) + i]
                 /\ combDone => Len(started) = emitted

C30_Witness ==
    /\ combinator = "takeEvery" /\ combDone /\ failure = NULL
    /\ emitted >= 3 /\ Cardinality(superseded) >= 2 /\ Len(started) = emitted

\* ---------------------------------------------------------------------
\* Claims about combineSagas
\* ---------------------------------------------------------------------

\* The sagas of the combination that failed other than by cancellation.
FailedSagas ==
    {c \in Children : Exit_isFailure(childExit[c])
                        /\ ~Cause_isInterruptedOnly(childExit[c].cause)}

\* The combined saga has ended after one of its sagas failed: it fails
\* with that failure, and every saga has exited, those that were still
\* running by cancellation.
C25_State ==
    combExit # NoExit /\ FailedSagas # {}
        => /\ Exit_isFailure(combExit)
           /\ ~Cause_isInterruptedOnly(combExit.cause)
           /\ \A c \in FailedSagas : childExit[c].cause \subseteq combExit.cause
           /\ \A c \in Children : childPc[c] = "done"
           /\ \A c \in Children :
                 sagas[c] = "long" /\ childSteps[c] = 0 /\ c \in sideEffects
                     => childExit[c] = Failure({"Interrupt"})

\* C25: when a saga of combineSagas fails, the combined saga fails with
\* that failure and the sagas still running are cancelled; once the
\* combined saga has ended no saga performs a side effect or takes a step.
C25_FailureCancelsSiblings ==
    /\ []C25_State
    /\ [][combExit # NoExit => UNCHANGED <<sideEffects, childSteps, childExit>>]_vars

C25_Witness ==
    /\ Exit_isFailure(combExit) /\ FailedSagas # {}
    /\ \E c \in Children : sagas[c] = "long" /\ childExit[c] = Failure({"Interrupt"})

\* C26: when the combined saga has ended, every saga that begins with a
\* side effect has performed it, whatever the outcome and the position of
\* the others.
C26_EverySiblingStarted ==
    combExit # NoExit
        => \A c \in Children : sagas[c] # "fail" => c \in sideEffects

C26_Witness ==
    /\ Exit_isFailure(combExit)
    /\ sagas[1] = "fail" /\ childSteps = [c \in Children |-> 0]
    /\ \A c \in Children \ {1} : sagas[c] = "sync" /\ c \in sideEffects

\* ---------------------------------------------------------------------
\* Claims about take
\* ---------------------------------------------------------------------

\* C23: take stays suspended while the stream has produced no element and
\* has not ended; at the first element it completes with exactly that
\* element, and it collects no element after it.
C23_TakeFirstElement ==
    /\ takePc = "running" <=> (takeExit = NoExit /\ takePc # "idle")
    /\ takePc = "running" => offered = <<>> /\ ~offeredEnded
    /\ offered # <<>> =>
          /\ takePc = "done" /\ takeExit = Success
          /\ takeValue = offered[1]
          /\ chunk = <<offered[1]>>

C23_Witness ==
    /\ takeExit = Success /\ Len(offered) >= 2
    /\ offered[2] # offered[1] /\ takeValue = offered[1]

\* C24: take on a stream that has ended without an element has ended with
\* a failure that is not a cancellation, which the runner's observer
\* reports to onError once.
C24_EmptyStreamFails ==
    takePc # "idle" /\ offeredEnded /\ offered = <<>>
        => /\ takePc = "done"
           /\ Exit_isFailure(takeExit)
           /\ ~Cause_isInterruptedOnly(takeExit.cause)
           /\ takeReported = 1

C24_Witness ==
    takePc = "done" /\ offeredEnded /\ offered = <<>> /\ takeReported = 1

\* ---------------------------------------------------------------------
\* Claims about the action stream and its subscription
\* ---------------------------------------------------------------------

\* The dispatch calls, in call order, that were made while the stream's
\* listener was subscribed and whose action matches the pattern.
MatchingDispatches(type) ==
    SelectSeq(UpTo(Len(dispatched)),
              LAMBDA d : /\ \E k \in dispatched[d].registeredAtCall :
                              tickets[k] = StreamFn
                         /\ actionPattern(type, dispatched[d].action))

\* The dispatch calls of the elements of makeActionStream, in the order of
\* the elements.
ElementDispatches(type) ==
    LET elements == makeActionStream(type)
    IN  [i \in 1..Len(elements) |-> elements[i].dispatch]

\* C21: when no dispatch is in progress, the elements of
\* makeActionStream(pattern) are the matching actions dispatched while the
\* stream was subscribed, one element for each, in dispatch order.
C21_EmitsMatchingInOrder ==
    stack = <<>> =>
        \A type \in PatternTypes : ElementDispatches(type) = MatchingDispatches(type)

\* The stream's listener is in the store's listeners.
StreamSubscribed == \E i \in 1..Len(listeners) : listeners[i].fn = StreamFn

\* C22: the stream's listener is subscribed only while the stream is
\* consumed: never before the first consumption, no longer once the
\* consumer has ended by completion, cancellation or failure, and not for
\* the saga of a fiber that a returned stop() call has interrupted.
C22_SubscriptionScoped ==
    /\ StreamSubscribed <=> streamPc = "consuming"
    /\ streamPc = "idle" => \A i \in 1..Len(tickets) : tickets[i] # StreamFn
    /\ streamPc = "consuming" => fibers[streamOwner].status # "done"
    /\ \A c \in CallIds :
          calls[c].op = "stop" /\ calls[c].pc = "done" /\ calls[c].target # NULL
              => ~(StreamSubscribed /\ streamOwner = calls[c].target)

C22_Witness ==
    /\ \E c \in CallIds :
          /\ calls[c].op = "stop" /\ calls[c].pc = "done"
          /\ calls[c].target = streamOwner
    /\ streamPc = "ended" /\ consumerEnd = "cancellation"
    /\ events # <<>> /\ ~StreamSubscribed

\* ---------------------------------------------------------------------
\* Claims about the event state, the wrapped store and the listener set
\* ---------------------------------------------------------------------

\* C31: the state of every event of the action stream is the reducer's
\* output for the event's action applied to the event's snapshot.
C31_EventStateIsReducerOutput ==
    \A i \in 1..Len(events) :
        events[i].state = reducer(events[i].stateSnapshot,
                                  dispatched[events[i].dispatch].action)

\* The state of the unwrapped store after the first n dispatch calls: the
\* reducer applied once for each, in call order, from the initial state.
RECURSIVE UnwrappedState(_)
UnwrappedState(n) ==
    IF n = 0 THEN 0 ELSE reducer(UnwrappedState(n - 1), dispatched[n].action)

\* C32: the wrapped store goes through the states of the unwrapped store:
\* each dispatch call applies the reducer once to the state the previous
\* call left, getState gives the state after the last call, and a dispatch
\* call never throws and returns what the underlying dispatch returns,
\* whatever its listeners do.
C32_WrappedStoreEquivalent ==
    /\ storeState = UnwrappedState(Len(dispatched))
    /\ \A d \in 1..Len(dispatched) :
          /\ dispatched[d].pre = UnwrappedState(d - 1)
          /\ dispatched[d].post = UnwrappedState(d)
          /\ ~dispatched[d].threw
          /\ dispatched[d].done =>
                dispatched[d].result = storeDispatchResult(dispatched[d].action)

\* Two dispatch calls have returned, a listener having thrown during the
\* first and listeners being registered for both.
C32_Witness ==
    /\ Len(dispatched) >= 2
    /\ \A d \in 1..2 : dispatched[d].done /\ dispatched[d].targets # <<>>
    /\ dispatched[1].caught
    /\ storeState = UnwrappedState(2)

\* The number of times dispatch call d has invoked the subscription.
TimesReached(d, ticket) ==
    Cardinality({i \in 1..Len(deliveries) :
        deliveries[i].dispatch = d /\ deliveries[i].listener.ticket = ticket})

\* C36: a dispatch call that has returned has invoked, once each, exactly
\* the subscriptions registered when its broadcast started: not one that a
\* listener subscribed during the broadcast, which later dispatch calls
\* invoke, and also one that was unsubscribed during the broadcast before
\* it was reached, which later dispatch calls do not invoke.
C36_ListenerSetAtBroadcastStart ==
    \A d \in 1..Len(dispatched) :
        /\ \A k \in dispatched[d].subscribedDuring : TimesReached(d, k) = 0
        /\ dispatched[d].done =>
              \A k \in 1..Len(tickets) :
                  TimesReached(d, k) =
                      IF k \in dispatched[d].registeredAtCall THEN 1 ELSE 0

\* A first dispatch call during which a listener subscribed another and a
\* listener still to be called was unsubscribed, and a second one that
\* invoked the former and not the latter; both have returned.
C36_Witness ==
    /\ Len(dispatched) >= 2
    /\ dispatched[1].done /\ dispatched[2].done
    /\ dispatched[1].unsubDuring
    /\ \E k \in dispatched[1].subscribedDuring :
          TimesReached(1, k) = 0 /\ TimesReached(2, k) = 1
    /\ \E k \in dispatched[1].registeredAtCall :
          /\ k \notin dispatched[2].registeredAtCall
          /\ TimesReached(1, k) = 1 /\ TimesReached(2, k) = 0

\* ---------------------------------------------------------------------
\* Claims about the runner's record and its start
\* ---------------------------------------------------------------------

\* A fiber reaches its terminal state in the step: its observer leaves the
\* record empty when the record held this fiber, and as it was when it
\* held another fiber or none.
C33_ObserverStep ==
    \A f \in FiberIds :
        fibers[f].status # "done" /\ fibers'[f].status = "done" =>
            running' = IF running # NoRunning /\ running.fiber = f
                         THEN NoRunning ELSE running

\* C33: the completion observer of a saga fiber clears the record only
\* when the record still holds that fiber; the exit of a fiber that was
\* replaced in the record leaves the record of the newer fiber as it is.
C33_ObserverClearsOwnRecordOnly == [][C33_ObserverStep]_vars

\* A second start replaced the first saga in the record while it was
\* alive; the first saga has exited since, and the record still holds the
\* second, which runs.
C33_Witness ==
    /\ calls[2].op = "start" /\ calls[2].pc = "done"
    /\ calls[2].recordBefore = attachFiberObserver(1, 1)
    /\ fibers[1].status = "done"
    /\ running = attachFiberObserver(2, 2)
    /\ fibers[2].status = "running"

\* While no store is bound no saga has been forked, the record is empty
\* and every start() call issued is suspended.
C34_NothingBeforeStore ==
    defer_isPending(storeDefer) =>
        /\ running = NoRunning
        /\ \A f \in FiberIds : fibers[f].status = "none" /\ fibers[f].steps = 0
        /\ \A c \in CallIds : calls[c].op = "start" => calls[c].pc = "awaitStore"

\* A start() call has returned: its root saga was forked, in the bound
\* store's runtime.
C34_Started(c) ==
    /\ calls[c].pc = "done"
    /\ fibers[c].status # "none" /\ fibers[c].saga = "root"
    /\ calls[c].recordAtReturn = attachFiberObserver(c, c)
    /\ calls[c].store = boundStore

\* C34: start() forks no saga and sets no record before a store is bound
\* and stays suspended until then; once the store is bound, a start() call
\* that waits eventually forks the root saga and records it.
C34_StartWaitsForStore ==
    /\ []C34_NothingBeforeStore
    /\ \A c \in CallIds :
          (calls[c].pc = "awaitStore" /\ ~defer_isPending(storeDefer)) ~> C34_Started(c)
    /\ \A c \in CallIds : calls[c].pc = "awaitStore" ~>
          (C34_Started(c) \/ defer_isPending(storeDefer))

\* Two start() calls are suspended and no store has been created.
C34_Witness ==
    /\ defer_isPending(storeDefer) /\ created = <<>>
    /\ calls[1].op = "start" /\ calls[1].pc = "awaitStore"
    /\ calls[2].op = "start" /\ calls[2].pc = "awaitStore"

\* C35: once a stop() call that found a saga running has returned, no call
\* issued later (with no other call suspended) forks a saga; and a stop()
\* call issued while the first start() waits for the store keeps that
\* start() from forking its saga.
C35_StoppedIsTerminal ==
    /\ \A c \in CallIds : \A d \in CallIds :
          (/\ c < d
           /\ calls[c].op = "stop" /\ calls[c].pc = "done" /\ calls[c].target # NULL
           /\ ~calls[d].overlaps) => fibers[d].status = "none"
    /\ (calls[1].op = "start" /\ calls[2].op = "stop" /\ calls[2].overlaps)
          => fibers[1].status = "none"

====
